---- MODULE Spec2Model ----
(***************************************************************************)
(* Event-Scheduler (src/main.js): the Event entity, the EventScheduler     *)
(* collection and utils.debounce, as state machines.                       *)
(*                                                                         *)
(* An Event object is identified by the index at which it was constructed  *)
(* (its Symbol id); title[i], date[i], attendees[i] are its private        *)
(* fields.  #date holds a reference to a mutable Date object that the      *)
(* caller passed in and that get date() hands out again: date[i] is that   *)
(* object's current value and dobj[i] names the object, as the least index *)
(* of an Event holding it.  The scheduler's Map is the sequence of its     *)
(* keys in insertion order (a Map iterates in insertion order, and the     *)
(* value stored under a key is the Event with that id).                    *)
(***************************************************************************)
EXTENDS Integers, Sequences, FiniteSets, TLC

VARIABLES title, date, dobj, attendees, events, ret, ops,
          timeoutId, timers, nextTimer, sinceCall, calls, runs

vars == <<title, date, dobj, attendees, events, ret, ops,
          timeoutId, timers, nextTimer, sinceCall, calls, runs>>

schedVars == <<title, date, dobj, attendees, events, ret, ops>>
debVars == <<timeoutId, timers, nextTimer, sinceCall, calls, runs>>

(***************************************************************************)
(* Bounds of the model: the number of Event objects constructed, and the   *)
(* number of successful calls that construct an Event or change one (ops   *)
(* counts them).  The scheduler's Map holds Events that exist, so calls of *)
(* addEvent and removeEvent need no bound.                                 *)
(***************************************************************************)
MaxEvents == 2
MaxOps == 3

(***************************************************************************)
(* JavaScript values.  A string is the sequence of its UTF-16 code units    *)
(* (65 is "A", 97 is "a", 32 the space, 9 the tab).  A Date carries its    *)
(* time value in ms since the epoch, or nan for an Invalid Date.           *)
(***************************************************************************)
Str(s) == [kind |-> "string", s |-> s, n |-> 0, nan |-> FALSE]
Num(n) == [kind |-> "number", s |-> <<>>, n |-> n, nan |-> FALSE]
DateOf(t) == [kind |-> "Date", s |-> <<>>, n |-> t, nan |-> FALSE]
InvalidDate == [kind |-> "Date", s |-> <<>>, n |-> 0, nan |-> TRUE]
EventRef(i) == [kind |-> "Event", s |-> <<>>, n |-> i, nan |-> FALSE]
EventId(i) == [kind |-> "symbol", s |-> <<>>, n |-> i, nan |-> FALSE]
Undefined == [kind |-> "undefined", s |-> <<>>, n |-> 0, nan |-> FALSE]
NaN == [kind |-> "number", s |-> <<>>, n |-> 0, nan |-> TRUE]

MsPerDay == 86400000

typeof(v) == v.kind
instanceofDate(v) == v.kind = "Date"
instanceofEvent(v) == v.kind = "Event"
isNaN(v) == v.nan

\* the WhiteSpace and LineTerminator code points String.prototype.trim strips
WhiteSpace ==
    {9, 10, 11, 12, 13, 32, 160, 5760, 8232, 8233, 8239, 8287, 12288, 65279}
        \cup (8192..8202)

IsSpace(c) == c \in WhiteSpace

RECURSIVE TrimStart(_)
TrimStart(s) ==
    IF s # <<>> /\ IsSpace(Head(s)) THEN TrimStart(Tail(s)) ELSE s

RECURSIVE TrimEnd(_)
TrimEnd(s) ==
    IF s # <<>> /\ IsSpace(s[Len(s)])
    THEN TrimEnd(SubSeq(s, 1, Len(s) - 1))
    ELSE s

trim(s) == TrimEnd(TrimStart(s))

(*****************************************************************************)
(* String.prototype.toLowerCase: the string is read as code points (a      *)
(* surrogate pair is one code point), every code point is replaced by its  *)
(* lower-case mapping of the Unicode Character Database, and the result is *)
(* written back as code units.  The mapping depends on the context in one  *)
(* case, U+03A3 (capital sigma, which becomes the final sigma U+03C2 at    *)
(* the end of a word), and changes the length in one case, U+0130 (capital *)
(* I with dot above, which becomes i followed by U+0307).  The result      *)
(* depends on the version of the Unicode data that the engine carries,     *)
(* which the program does not fix: the operators below give the set of     *)
(* results over the versions from 15.0 to 17.0, one result wherever the    *)
(* versions agree.  LowerRanges lists <<first, last, step, delta>> for the *)
(* code points from U+00C0 on that have a lower-case mapping in 17.0.  For *)
(* the code points that 15.0 assigns, CasedRanges lists <<first, last>>    *)
(* for the Cased ones that are not Case_Ignorable and CaseIgnorableRanges  *)
(* for the Case_Ignorable ones; CasedRanges lists the cased letters of     *)
(* 16.0 and 17.0 as well.  UnassignedRanges lists the code points that     *)
(* 15.0 leaves unassigned (the noncharacters apart): a later version can   *)
(* leave such a code point unassigned or make it a letter or a mark.       *)
(*****************************************************************************)
LowerRanges ==
    { <<192, 214, 1, 32>>, <<216, 222, 1, 32>>, <<256, 302, 2, 1>>,
      <<306, 310, 2, 1>>, <<313, 327, 2, 1>>, <<330, 374, 2, 1>>,
      <<376, 376, 1, -121>>, <<377, 381, 2, 1>>, <<385, 385, 1, 210>>,
      <<386, 388, 2, 1>>, <<390, 390, 1, 206>>, <<391, 391, 1, 1>>,
      <<393, 394, 1, 205>>, <<395, 395, 1, 1>>, <<398, 398, 1, 79>>,
      <<399, 399, 1, 202>>, <<400, 400, 1, 203>>, <<401, 401, 1, 1>>,
      <<403, 403, 1, 205>>, <<404, 404, 1, 207>>, <<406, 406, 1, 211>>,
      <<407, 407, 1, 209>>, <<408, 408, 1, 1>>, <<412, 412, 1, 211>>,
      <<413, 413, 1, 213>>, <<415, 415, 1, 214>>, <<416, 420, 2, 1>>,
      <<422, 422, 1, 218>>, <<423, 423, 1, 1>>, <<425, 425, 1, 218>>,
      <<428, 428, 1, 1>>, <<430, 430, 1, 218>>, <<431, 431, 1, 1>>,
      <<433, 434, 1, 217>>, <<435, 437, 2, 1>>, <<439, 439, 1, 219>>,
      <<440, 440, 1, 1>>, <<444, 444, 1, 1>>, <<452, 452, 1, 2>>,
      <<453, 453, 1, 1>>, <<455, 455, 1, 2>>, <<456, 456, 1, 1>>,
      <<458, 458, 1, 2>>, <<459, 475, 2, 1>>, <<478, 494, 2, 1>>,
      <<497, 497, 1, 2>>, <<498, 500, 2, 1>>, <<502, 502, 1, -97>>,
      <<503, 503, 1, -56>>, <<504, 542, 2, 1>>, <<544, 544, 1, -130>>,
      <<546, 562, 2, 1>>, <<570, 570, 1, 10795>>, <<571, 571, 1, 1>>,
      <<573, 573, 1, -163>>, <<574, 574, 1, 10792>>, <<577, 577, 1, 1>>,
      <<579, 579, 1, -195>>, <<580, 580, 1, 69>>, <<581, 581, 1, 71>>,
      <<582, 590, 2, 1>>, <<880, 882, 2, 1>>, <<886, 886, 1, 1>>,
      <<895, 895, 1, 116>>, <<902, 902, 1, 38>>, <<904, 906, 1, 37>>,
      <<908, 908, 1, 64>>, <<910, 911, 1, 63>>, <<913, 929, 1, 32>>,
      <<931, 939, 1, 32>>, <<975, 975, 1, 8>>, <<984, 1006, 2, 1>>,
      <<1012, 1012, 1, -60>>, <<1015, 1015, 1, 1>>, <<1017, 1017, 1, -7>>,
      <<1018, 1018, 1, 1>>, <<1021, 1023, 1, -130>>, <<1024, 1039, 1, 80>>,
      <<1040, 1071, 1, 32>>, <<1120, 1152, 2, 1>>, <<1162, 1214, 2, 1>>,
      <<1216, 1216, 1, 15>>, <<1217, 1229, 2, 1>>, <<1232, 1326, 2, 1>>,
      <<1329, 1366, 1, 48>>, <<4256, 4293, 1, 7264>>,
      <<4295, 4295, 1, 7264>>, <<4301, 4301, 1, 7264>>,
      <<5024, 5103, 1, 38864>>, <<5104, 5109, 1, 8>>, <<7305, 7305, 1, 1>>,
      <<7312, 7354, 1, -3008>>, <<7357, 7359, 1, -3008>>,
      <<7680, 7828, 2, 1>>, <<7838, 7838, 1, -7615>>, <<7840, 7934, 2, 1>>,
      <<7944, 7951, 1, -8>>, <<7960, 7965, 1, -8>>, <<7976, 7983, 1, -8>>,
      <<7992, 7999, 1, -8>>, <<8008, 8013, 1, -8>>, <<8025, 8031, 2, -8>>,
      <<8040, 8047, 1, -8>>, <<8072, 8079, 1, -8>>, <<8088, 8095, 1, -8>>,
      <<8104, 8111, 1, -8>>, <<8120, 8121, 1, -8>>, <<8122, 8123, 1, -74>>,
      <<8124, 8124, 1, -9>>, <<8136, 8139, 1, -86>>, <<8140, 8140, 1, -9>>,
      <<8152, 8153, 1, -8>>, <<8154, 8155, 1, -100>>, <<8168, 8169, 1, -8>>,
      <<8170, 8171, 1, -112>>, <<8172, 8172, 1, -7>>,
      <<8184, 8185, 1, -128>>, <<8186, 8187, 1, -126>>,
      <<8188, 8188, 1, -9>>, <<8486, 8486, 1, -7517>>,
      <<8490, 8490, 1, -8383>>, <<8491, 8491, 1, -8262>>,
      <<8498, 8498, 1, 28>>, <<8544, 8559, 1, 16>>, <<8579, 8579, 1, 1>>,
      <<9398, 9423, 1, 26>>, <<11264, 11311, 1, 48>>, <<11360, 11360, 1, 1>>,
      <<11362, 11362, 1, -10743>>, <<11363, 11363, 1, -3814>>,
      <<11364, 11364, 1, -10727>>, <<11367, 11371, 2, 1>>,
      <<11373, 11373, 1, -10780>>, <<11374, 11374, 1, -10749>>,
      <<11375, 11375, 1, -10783>>, <<11376, 11376, 1, -10782>>,
      <<11378, 11378, 1, 1>>, <<11381, 11381, 1, 1>>,
      <<11390, 11391, 1, -10815>>, <<11392, 11490, 2, 1>>,
      <<11499, 11501, 2, 1>>, <<11506, 11506, 1, 1>>, <<42560, 42604, 2, 1>>,
      <<42624, 42650, 2, 1>>, <<42786, 42798, 2, 1>>, <<42802, 42862, 2, 1>>,
      <<42873, 42875, 2, 1>>, <<42877, 42877, 1, -35332>>,
      <<42878, 42886, 2, 1>>, <<42891, 42891, 1, 1>>,
      <<42893, 42893, 1, -42280>>, <<42896, 42898, 2, 1>>,
      <<42902, 42920, 2, 1>>, <<42922, 42922, 1, -42308>>,
      <<42923, 42923, 1, -42319>>, <<42924, 42924, 1, -42315>>,
      <<42925, 42925, 1, -42305>>, <<42926, 42926, 1, -42308>>,
      <<42928, 42928, 1, -42258>>, <<42929, 42929, 1, -42282>>,
      <<42930, 42930, 1, -42261>>, <<42931, 42931, 1, 928>>,
      <<42932, 42946, 2, 1>>, <<42948, 42948, 1, -48>>,
      <<42949, 42949, 1, -42307>>, <<42950, 42950, 1, -35384>>,
      <<42951, 42953, 2, 1>>, <<42955, 42955, 1, -42343>>,
      <<42956, 42970, 2, 1>>, <<42972, 42972, 1, -42561>>,
      <<42997, 42997, 1, 1>>, <<65313, 65338, 1, 32>>,
      <<66560, 66599, 1, 40>>, <<66736, 66771, 1, 40>>,
      <<66928, 66938, 1, 39>>, <<66940, 66954, 1, 39>>,
      <<66956, 66962, 1, 39>>, <<66964, 66965, 1, 39>>,
      <<68736, 68786, 1, 64>>, <<68944, 68965, 1, 32>>,
      <<71840, 71871, 1, 32>>, <<93760, 93791, 1, 32>>,
      <<93856, 93880, 1, 27>>, <<125184, 125217, 1, 34>> }

CasedRanges ==
    { <<170, 170>>, <<181, 181>>, <<186, 186>>, <<192, 214>>, <<216, 246>>,
      <<248, 442>>, <<444, 447>>, <<452, 659>>, <<662, 687>>, <<880, 883>>,
      <<886, 887>>, <<891, 893>>, <<895, 895>>, <<902, 902>>, <<904, 906>>,
      <<908, 908>>, <<910, 929>>, <<931, 1013>>, <<1015, 1153>>,
      <<1162, 1327>>, <<1329, 1366>>, <<1376, 1416>>, <<4256, 4293>>,
      <<4295, 4295>>, <<4301, 4301>>, <<4304, 4346>>, <<4349, 4351>>,
      <<5024, 5109>>, <<5112, 5117>>, <<7296, 7306>>, <<7312, 7354>>,
      <<7357, 7359>>, <<7424, 7467>>, <<7531, 7543>>, <<7545, 7578>>,
      <<7680, 7957>>, <<7960, 7965>>, <<7968, 8005>>, <<8008, 8013>>,
      <<8016, 8023>>, <<8025, 8025>>, <<8027, 8027>>, <<8029, 8029>>,
      <<8031, 8061>>, <<8064, 8116>>, <<8118, 8124>>, <<8126, 8126>>,
      <<8130, 8132>>, <<8134, 8140>>, <<8144, 8147>>, <<8150, 8155>>,
      <<8160, 8172>>, <<8178, 8180>>, <<8182, 8188>>, <<8450, 8450>>,
      <<8455, 8455>>, <<8458, 8467>>, <<8469, 8469>>, <<8473, 8477>>,
      <<8484, 8484>>, <<8486, 8486>>, <<8488, 8488>>, <<8490, 8493>>,
      <<8495, 8500>>, <<8505, 8505>>, <<8508, 8511>>, <<8517, 8521>>,
      <<8526, 8526>>, <<8544, 8575>>, <<8579, 8580>>, <<9398, 9449>>,
      <<11264, 11387>>, <<11390, 11492>>, <<11499, 11502>>, <<11506, 11507>>,
      <<11520, 11557>>, <<11559, 11559>>, <<11565, 11565>>, <<42560, 42605>>,
      <<42624, 42651>>, <<42786, 42863>>, <<42865, 42887>>, <<42891, 42894>>,
      <<42896, 42972>>, <<42997, 42998>>, <<43002, 43002>>, <<43824, 43866>>,
      <<43872, 43880>>, <<43888, 43967>>, <<64256, 64262>>, <<64275, 64279>>,
      <<65313, 65338>>, <<65345, 65370>>, <<66560, 66639>>, <<66736, 66771>>,
      <<66776, 66811>>, <<66928, 66938>>, <<66940, 66954>>, <<66956, 66962>>,
      <<66964, 66965>>, <<66967, 66977>>, <<66979, 66993>>, <<66995, 67001>>,
      <<67003, 67004>>, <<68736, 68786>>, <<68800, 68850>>, <<68944, 68965>>,
      <<68976, 68997>>, <<71840, 71903>>, <<93760, 93823>>, <<93856, 93880>>,
      <<93883, 93907>>, <<119808, 119892>>, <<119894, 119964>>,
      <<119966, 119967>>, <<119970, 119970>>, <<119973, 119974>>,
      <<119977, 119980>>, <<119982, 119993>>, <<119995, 119995>>,
      <<119997, 120003>>, <<120005, 120069>>, <<120071, 120074>>,
      <<120077, 120084>>, <<120086, 120092>>, <<120094, 120121>>,
      <<120123, 120126>>, <<120128, 120132>>, <<120134, 120134>>,
      <<120138, 120144>>, <<120146, 120485>>, <<120488, 120512>>,
      <<120514, 120538>>, <<120540, 120570>>, <<120572, 120596>>,
      <<120598, 120628>>, <<120630, 120654>>, <<120656, 120686>>,
      <<120688, 120712>>, <<120714, 120744>>, <<120746, 120770>>,
      <<120772, 120779>>, <<122624, 122633>>, <<122635, 122654>>,
      <<122661, 122666>>, <<125184, 125251>>, <<127280, 127305>>,
      <<127312, 127337>>, <<127344, 127369>> }

CaseIgnorableRanges ==
    { <<168, 168>>, <<173, 173>>, <<175, 175>>, <<180, 180>>, <<183, 184>>,
      <<688, 879>>, <<884, 885>>, <<890, 890>>, <<900, 901>>, <<903, 903>>,
      <<1155, 1161>>, <<1369, 1369>>, <<1375, 1375>>, <<1425, 1469>>,
      <<1471, 1471>>, <<1473, 1474>>, <<1476, 1477>>, <<1479, 1479>>,
      <<1524, 1524>>, <<1536, 1541>>, <<1552, 1562>>, <<1564, 1564>>,
      <<1600, 1600>>, <<1611, 1631>>, <<1648, 1648>>, <<1750, 1757>>,
      <<1759, 1768>>, <<1770, 1773>>, <<1807, 1807>>, <<1809, 1809>>,
      <<1840, 1866>>, <<1958, 1968>>, <<2027, 2037>>, <<2042, 2042>>,
      <<2045, 2045>>, <<2070, 2093>>, <<2137, 2139>>, <<2184, 2184>>,
      <<2192, 2193>>, <<2200, 2207>>, <<2249, 2306>>, <<2362, 2362>>,
      <<2364, 2364>>, <<2369, 2376>>, <<2381, 2381>>, <<2385, 2391>>,
      <<2402, 2403>>, <<2417, 2417>>, <<2433, 2433>>, <<2492, 2492>>,
      <<2497, 2500>>, <<2509, 2509>>, <<2530, 2531>>, <<2558, 2558>>,
      <<2561, 2562>>, <<2620, 2620>>, <<2625, 2626>>, <<2631, 2632>>,
      <<2635, 2637>>, <<2641, 2641>>, <<2672, 2673>>, <<2677, 2677>>,
      <<2689, 2690>>, <<2748, 2748>>, <<2753, 2757>>, <<2759, 2760>>,
      <<2765, 2765>>, <<2786, 2787>>, <<2810, 2815>>, <<2817, 2817>>,
      <<2876, 2876>>, <<2879, 2879>>, <<2881, 2884>>, <<2893, 2893>>,
      <<2901, 2902>>, <<2914, 2915>>, <<2946, 2946>>, <<3008, 3008>>,
      <<3021, 3021>>, <<3072, 3072>>, <<3076, 3076>>, <<3132, 3132>>,
      <<3134, 3136>>, <<3142, 3144>>, <<3146, 3149>>, <<3157, 3158>>,
      <<3170, 3171>>, <<3201, 3201>>, <<3260, 3260>>, <<3263, 3263>>,
      <<3270, 3270>>, <<3276, 3277>>, <<3298, 3299>>, <<3328, 3329>>,
      <<3387, 3388>>, <<3393, 3396>>, <<3405, 3405>>, <<3426, 3427>>,
      <<3457, 3457>>, <<3530, 3530>>, <<3538, 3540>>, <<3542, 3542>>,
      <<3633, 3633>>, <<3636, 3642>>, <<3654, 3662>>, <<3761, 3761>>,
      <<3764, 3772>>, <<3782, 3782>>, <<3784, 3790>>, <<3864, 3865>>,
      <<3893, 3893>>, <<3895, 3895>>, <<3897, 3897>>, <<3953, 3966>>,
      <<3968, 3972>>, <<3974, 3975>>, <<3981, 3991>>, <<3993, 4028>>,
      <<4038, 4038>>, <<4141, 4144>>, <<4146, 4151>>, <<4153, 4154>>,
      <<4157, 4158>>, <<4184, 4185>>, <<4190, 4192>>, <<4209, 4212>>,
      <<4226, 4226>>, <<4229, 4230>>, <<4237, 4237>>, <<4253, 4253>>,
      <<4348, 4348>>, <<4957, 4959>>, <<5906, 5908>>, <<5938, 5939>>,
      <<5970, 5971>>, <<6002, 6003>>, <<6068, 6069>>, <<6071, 6077>>,
      <<6086, 6086>>, <<6089, 6099>>, <<6103, 6103>>, <<6109, 6109>>,
      <<6155, 6159>>, <<6211, 6211>>, <<6277, 6278>>, <<6313, 6313>>,
      <<6432, 6434>>, <<6439, 6440>>, <<6450, 6450>>, <<6457, 6459>>,
      <<6679, 6680>>, <<6683, 6683>>, <<6742, 6742>>, <<6744, 6750>>,
      <<6752, 6752>>, <<6754, 6754>>, <<6757, 6764>>, <<6771, 6780>>,
      <<6783, 6783>>, <<6823, 6823>>, <<6832, 6862>>, <<6912, 6915>>,
      <<6964, 6964>>, <<6966, 6970>>, <<6972, 6972>>, <<6978, 6978>>,
      <<7019, 7027>>, <<7040, 7041>>, <<7074, 7077>>, <<7080, 7081>>,
      <<7083, 7085>>, <<7142, 7142>>, <<7144, 7145>>, <<7149, 7149>>,
      <<7151, 7153>>, <<7212, 7219>>, <<7222, 7223>>, <<7288, 7293>>,
      <<7376, 7378>>, <<7380, 7392>>, <<7394, 7400>>, <<7405, 7405>>,
      <<7412, 7412>>, <<7416, 7417>>, <<7468, 7530>>, <<7544, 7544>>,
      <<7579, 7679>>, <<8125, 8125>>, <<8127, 8129>>, <<8141, 8143>>,
      <<8157, 8159>>, <<8173, 8175>>, <<8189, 8190>>, <<8203, 8207>>,
      <<8216, 8217>>, <<8228, 8228>>, <<8231, 8231>>, <<8234, 8238>>,
      <<8288, 8292>>, <<8294, 8303>>, <<8305, 8305>>, <<8319, 8319>>,
      <<8336, 8348>>, <<8400, 8432>>, <<11388, 11389>>, <<11503, 11505>>,
      <<11631, 11631>>, <<11647, 11647>>, <<11744, 11775>>, <<11823, 11823>>,
      <<12293, 12293>>, <<12330, 12333>>, <<12337, 12341>>, <<12347, 12347>>,
      <<12441, 12446>>, <<12540, 12542>>, <<40981, 40981>>, <<42232, 42237>>,
      <<42508, 42508>>, <<42607, 42610>>, <<42612, 42621>>, <<42623, 42623>>,
      <<42652, 42655>>, <<42736, 42737>>, <<42752, 42785>>, <<42864, 42864>>,
      <<42888, 42890>>, <<42994, 42996>>, <<43000, 43001>>, <<43010, 43010>>,
      <<43014, 43014>>, <<43019, 43019>>, <<43045, 43046>>, <<43052, 43052>>,
      <<43204, 43205>>, <<43232, 43249>>, <<43263, 43263>>, <<43302, 43309>>,
      <<43335, 43345>>, <<43392, 43394>>, <<43443, 43443>>, <<43446, 43449>>,
      <<43452, 43453>>, <<43471, 43471>>, <<43493, 43494>>, <<43561, 43566>>,
      <<43569, 43570>>, <<43573, 43574>>, <<43587, 43587>>, <<43596, 43596>>,
      <<43632, 43632>>, <<43644, 43644>>, <<43696, 43696>>, <<43698, 43700>>,
      <<43703, 43704>>, <<43710, 43711>>, <<43713, 43713>>, <<43741, 43741>>,
      <<43756, 43757>>, <<43763, 43764>>, <<43766, 43766>>, <<43867, 43871>>,
      <<43881, 43883>>, <<44005, 44005>>, <<44008, 44008>>, <<44013, 44013>>,
      <<64286, 64286>>, <<64434, 64450>>, <<65024, 65039>>, <<65043, 65043>>,
      <<65056, 65071>>, <<65106, 65106>>, <<65279, 65279>>, <<65287, 65287>>,
      <<65294, 65294>>, <<65342, 65342>>, <<65344, 65344>>, <<65392, 65392>>,
      <<65438, 65439>>, <<65507, 65507>>, <<65529, 65531>>, <<66045, 66045>>,
      <<66272, 66272>>, <<66422, 66426>>, <<67456, 67461>>, <<67463, 67504>>,
      <<67506, 67514>>, <<68097, 68099>>, <<68101, 68102>>, <<68108, 68111>>,
      <<68152, 68154>>, <<68159, 68159>>, <<68325, 68326>>, <<68900, 68903>>,
      <<69291, 69292>>, <<69373, 69375>>, <<69446, 69456>>, <<69506, 69509>>,
      <<69633, 69633>>, <<69688, 69702>>, <<69744, 69744>>, <<69747, 69748>>,
      <<69759, 69761>>, <<69811, 69814>>, <<69817, 69818>>, <<69821, 69821>>,
      <<69826, 69826>>, <<69837, 69837>>, <<69888, 69890>>, <<69927, 69931>>,
      <<69933, 69940>>, <<70003, 70003>>, <<70016, 70017>>, <<70070, 70078>>,
      <<70089, 70092>>, <<70095, 70095>>, <<70191, 70193>>, <<70196, 70196>>,
      <<70198, 70199>>, <<70206, 70206>>, <<70209, 70209>>, <<70367, 70367>>,
      <<70371, 70378>>, <<70400, 70401>>, <<70459, 70460>>, <<70464, 70464>>,
      <<70502, 70508>>, <<70512, 70516>>, <<70712, 70719>>, <<70722, 70724>>,
      <<70726, 70726>>, <<70750, 70750>>, <<70835, 70840>>, <<70842, 70842>>,
      <<70847, 70848>>, <<70850, 70851>>, <<71090, 71093>>, <<71100, 71101>>,
      <<71103, 71104>>, <<71132, 71133>>, <<71219, 71226>>, <<71229, 71229>>,
      <<71231, 71232>>, <<71339, 71339>>, <<71341, 71341>>, <<71344, 71349>>,
      <<71351, 71351>>, <<71453, 71453>>, <<71455, 71455>>, <<71458, 71461>>,
      <<71463, 71467>>, <<71727, 71735>>, <<71737, 71738>>, <<71995, 71996>>,
      <<71998, 71998>>, <<72003, 72003>>, <<72148, 72151>>, <<72154, 72155>>,
      <<72160, 72160>>, <<72193, 72202>>, <<72243, 72248>>, <<72251, 72254>>,
      <<72263, 72263>>, <<72273, 72278>>, <<72281, 72283>>, <<72330, 72342>>,
      <<72344, 72345>>, <<72752, 72758>>, <<72760, 72765>>, <<72767, 72767>>,
      <<72850, 72871>>, <<72874, 72880>>, <<72882, 72883>>, <<72885, 72886>>,
      <<73009, 73014>>, <<73018, 73018>>, <<73020, 73021>>, <<73023, 73029>>,
      <<73031, 73031>>, <<73104, 73105>>, <<73109, 73109>>, <<73111, 73111>>,
      <<73459, 73460>>, <<73472, 73473>>, <<73526, 73530>>, <<73536, 73536>>,
      <<73538, 73538>>, <<78896, 78912>>, <<78919, 78933>>, <<92912, 92916>>,
      <<92976, 92982>>, <<92992, 92995>>, <<94031, 94031>>, <<94095, 94111>>,
      <<94176, 94177>>, <<94179, 94180>>, <<110576, 110579>>,
      <<110581, 110587>>, <<110589, 110590>>, <<113821, 113822>>,
      <<113824, 113827>>, <<118528, 118573>>, <<118576, 118598>>,
      <<119143, 119145>>, <<119155, 119170>>, <<119173, 119179>>,
      <<119210, 119213>>, <<119362, 119364>>, <<121344, 121398>>,
      <<121403, 121452>>, <<121461, 121461>>, <<121476, 121476>>,
      <<121499, 121503>>, <<121505, 121519>>, <<122880, 122886>>,
      <<122888, 122904>>, <<122907, 122913>>, <<122915, 122916>>,
      <<122918, 122922>>, <<122928, 122989>>, <<123023, 123023>>,
      <<123184, 123197>>, <<123566, 123566>>, <<123628, 123631>>,
      <<124139, 124143>>, <<125136, 125142>>, <<125252, 125259>>,
      <<127995, 127999>>, <<917505, 917505>>, <<917536, 917631>>,
      <<917760, 917999>> }

UnassignedRanges ==
    { <<888, 889>>, <<896, 899>>, <<907, 907>>, <<909, 909>>, <<930, 930>>,
      <<1328, 1328>>, <<1367, 1368>>, <<1419, 1420>>, <<1424, 1424>>,
      <<1480, 1487>>, <<1515, 1518>>, <<1525, 1535>>, <<1806, 1806>>,
      <<1867, 1868>>, <<1970, 1983>>, <<2043, 2044>>, <<2094, 2095>>,
      <<2111, 2111>>, <<2140, 2141>>, <<2143, 2143>>, <<2155, 2159>>,
      <<2191, 2191>>, <<2194, 2199>>, <<2436, 2436>>, <<2445, 2446>>,
      <<2449, 2450>>, <<2473, 2473>>, <<2481, 2481>>, <<2483, 2485>>,
      <<2490, 2491>>, <<2501, 2502>>, <<2505, 2506>>, <<2511, 2518>>,
      <<2520, 2523>>, <<2526, 2526>>, <<2532, 2533>>, <<2559, 2560>>,
      <<2564, 2564>>, <<2571, 2574>>, <<2577, 2578>>, <<2601, 2601>>,
      <<2609, 2609>>, <<2612, 2612>>, <<2615, 2615>>, <<2618, 2619>>,
      <<2621, 2621>>, <<2627, 2630>>, <<2633, 2634>>, <<2638, 2640>>,
      <<2642, 2648>>, <<2653, 2653>>, <<2655, 2661>>, <<2679, 2688>>,
      <<2692, 2692>>, <<2702, 2702>>, <<2706, 2706>>, <<2729, 2729>>,
      <<2737, 2737>>, <<2740, 2740>>, <<2746, 2747>>, <<2758, 2758>>,
      <<2762, 2762>>, <<2766, 2767>>, <<2769, 2783>>, <<2788, 2789>>,
      <<2802, 2808>>, <<2816, 2816>>, <<2820, 2820>>, <<2829, 2830>>,
      <<2833, 2834>>, <<2857, 2857>>, <<2865, 2865>>, <<2868, 2868>>,
      <<2874, 2875>>, <<2885, 2886>>, <<2889, 2890>>, <<2894, 2900>>,
      <<2904, 2907>>, <<2910, 2910>>, <<2916, 2917>>, <<2936, 2945>>,
      <<2948, 2948>>, <<2955, 2957>>, <<2961, 2961>>, <<2966, 2968>>,
      <<2971, 2971>>, <<2973, 2973>>, <<2976, 2978>>, <<2981, 2983>>,
      <<2987, 2989>>, <<3002, 3005>>, <<3011, 3013>>, <<3017, 3017>>,
      <<3022, 3023>>, <<3025, 3030>>, <<3032, 3045>>, <<3067, 3071>>,
      <<3085, 3085>>, <<3089, 3089>>, <<3113, 3113>>, <<3130, 3131>>,
      <<3141, 3141>>, <<3145, 3145>>, <<3150, 3156>>, <<3159, 3159>>,
      <<3163, 3164>>, <<3166, 3167>>, <<3172, 3173>>, <<3184, 3190>>,
      <<3213, 3213>>, <<3217, 3217>>, <<3241, 3241>>, <<3252, 3252>>,
      <<3258, 3259>>, <<3269, 3269>>, <<3273, 3273>>, <<3278, 3284>>,
      <<3287, 3292>>, <<3295, 3295>>, <<3300, 3301>>, <<3312, 3312>>,
      <<3316, 3327>>, <<3341, 3341>>, <<3345, 3345>>, <<3397, 3397>>,
      <<3401, 3401>>, <<3408, 3411>>, <<3428, 3429>>, <<3456, 3456>>,
      <<3460, 3460>>, <<3479, 3481>>, <<3506, 3506>>, <<3516, 3516>>,
      <<3518, 3519>>, <<3527, 3529>>, <<3531, 3534>>, <<3541, 3541>>,
      <<3543, 3543>>, <<3552, 3557>>, <<3568, 3569>>, <<3573, 3584>>,
      <<3643, 3646>>, <<3676, 3712>>, <<3715, 3715>>, <<3717, 3717>>,
      <<3723, 3723>>, <<3748, 3748>>, <<3750, 3750>>, <<3774, 3775>>,
      <<3781, 3781>>, <<3783, 3783>>, <<3791, 3791>>, <<3802, 3803>>,
      <<3808, 3839>>, <<3912, 3912>>, <<3949, 3952>>, <<3992, 3992>>,
      <<4029, 4029>>, <<4045, 4045>>, <<4059, 4095>>, <<4294, 4294>>,
      <<4296, 4300>>, <<4302, 4303>>, <<4681, 4681>>, <<4686, 4687>>,
      <<4695, 4695>>, <<4697, 4697>>, <<4702, 4703>>, <<4745, 4745>>,
      <<4750, 4751>>, <<4785, 4785>>, <<4790, 4791>>, <<4799, 4799>>,
      <<4801, 4801>>, <<4806, 4807>>, <<4823, 4823>>, <<4881, 4881>>,
      <<4886, 4887>>, <<4955, 4956>>, <<4989, 4991>>, <<5018, 5023>>,
      <<5110, 5111>>, <<5118, 5119>>, <<5789, 5791>>, <<5881, 5887>>,
      <<5910, 5918>>, <<5943, 5951>>, <<5972, 5983>>, <<5997, 5997>>,
      <<6001, 6001>>, <<6004, 6015>>, <<6110, 6111>>, <<6122, 6127>>,
      <<6138, 6143>>, <<6170, 6175>>, <<6265, 6271>>, <<6315, 6319>>,
      <<6390, 6399>>, <<6431, 6431>>, <<6444, 6447>>, <<6460, 6463>>,
      <<6465, 6467>>, <<6510, 6511>>, <<6517, 6527>>, <<6572, 6575>>,
      <<6602, 6607>>, <<6619, 6621>>, <<6684, 6685>>, <<6751, 6751>>,
      <<6781, 6782>>, <<6794, 6799>>, <<6810, 6815>>, <<6830, 6831>>,
      <<6863, 6911>>, <<6989, 6991>>, <<7039, 7039>>, <<7156, 7163>>,
      <<7224, 7226>>, <<7242, 7244>>, <<7305, 7311>>, <<7355, 7356>>,
      <<7368, 7375>>, <<7419, 7423>>, <<7958, 7959>>, <<7966, 7967>>,
      <<8006, 8007>>, <<8014, 8015>>, <<8024, 8024>>, <<8026, 8026>>,
      <<8028, 8028>>, <<8030, 8030>>, <<8062, 8063>>, <<8117, 8117>>,
      <<8133, 8133>>, <<8148, 8149>>, <<8156, 8156>>, <<8176, 8177>>,
      <<8181, 8181>>, <<8191, 8191>>, <<8293, 8293>>, <<8306, 8307>>,
      <<8335, 8335>>, <<8349, 8351>>, <<8385, 8399>>, <<8433, 8447>>,
      <<8588, 8591>>, <<9255, 9279>>, <<9291, 9311>>, <<11124, 11125>>,
      <<11158, 11158>>, <<11508, 11512>>, <<11558, 11558>>, <<11560, 11564>>,
      <<11566, 11567>>, <<11624, 11630>>, <<11633, 11646>>, <<11671, 11679>>,
      <<11687, 11687>>, <<11695, 11695>>, <<11703, 11703>>, <<11711, 11711>>,
      <<11719, 11719>>, <<11727, 11727>>, <<11735, 11735>>, <<11743, 11743>>,
      <<11870, 11903>>, <<11930, 11930>>, <<12020, 12031>>, <<12246, 12271>>,
      <<12284, 12287>>, <<12352, 12352>>, <<12439, 12440>>, <<12544, 12548>>,
      <<12592, 12592>>, <<12687, 12687>>, <<12772, 12783>>, <<12831, 12831>>,
      <<42125, 42127>>, <<42183, 42191>>, <<42540, 42559>>, <<42744, 42751>>,
      <<42955, 42959>>, <<42962, 42962>>, <<42964, 42964>>, <<42970, 42993>>,
      <<43053, 43055>>, <<43066, 43071>>, <<43128, 43135>>, <<43206, 43213>>,
      <<43226, 43231>>, <<43348, 43358>>, <<43389, 43391>>, <<43470, 43470>>,
      <<43482, 43485>>, <<43519, 43519>>, <<43575, 43583>>, <<43598, 43599>>,
      <<43610, 43611>>, <<43715, 43738>>, <<43767, 43776>>, <<43783, 43784>>,
      <<43791, 43792>>, <<43799, 43807>>, <<43815, 43815>>, <<43823, 43823>>,
      <<43884, 43887>>, <<44014, 44015>>, <<44026, 44031>>, <<55204, 55215>>,
      <<55239, 55242>>, <<55292, 55295>>, <<64110, 64111>>, <<64218, 64255>>,
      <<64263, 64274>>, <<64280, 64284>>, <<64311, 64311>>, <<64317, 64317>>,
      <<64319, 64319>>, <<64322, 64322>>, <<64325, 64325>>, <<64451, 64466>>,
      <<64912, 64913>>, <<64968, 64974>>, <<65050, 65055>>, <<65107, 65107>>,
      <<65127, 65127>>, <<65132, 65135>>, <<65141, 65141>>, <<65277, 65278>>,
      <<65280, 65280>>, <<65471, 65473>>, <<65480, 65481>>, <<65488, 65489>>,
      <<65496, 65497>>, <<65501, 65503>>, <<65511, 65511>>, <<65519, 65528>>,
      <<65548, 65548>>, <<65575, 65575>>, <<65595, 65595>>, <<65598, 65598>>,
      <<65614, 65615>>, <<65630, 65663>>, <<65787, 65791>>, <<65795, 65798>>,
      <<65844, 65846>>, <<65935, 65935>>, <<65949, 65951>>, <<65953, 65999>>,
      <<66046, 66175>>, <<66205, 66207>>, <<66257, 66271>>, <<66300, 66303>>,
      <<66340, 66348>>, <<66379, 66383>>, <<66427, 66431>>, <<66462, 66462>>,
      <<66500, 66503>>, <<66518, 66559>>, <<66718, 66719>>, <<66730, 66735>>,
      <<66772, 66775>>, <<66812, 66815>>, <<66856, 66863>>, <<66916, 66926>>,
      <<66939, 66939>>, <<66955, 66955>>, <<66963, 66963>>, <<66966, 66966>>,
      <<66978, 66978>>, <<66994, 66994>>, <<67002, 67002>>, <<67005, 67071>>,
      <<67383, 67391>>, <<67414, 67423>>, <<67432, 67455>>, <<67462, 67462>>,
      <<67505, 67505>>, <<67515, 67583>>, <<67590, 67591>>, <<67593, 67593>>,
      <<67638, 67638>>, <<67641, 67643>>, <<67645, 67646>>, <<67670, 67670>>,
      <<67743, 67750>>, <<67760, 67807>>, <<67827, 67827>>, <<67830, 67834>>,
      <<67868, 67870>>, <<67898, 67902>>, <<67904, 67967>>, <<68024, 68027>>,
      <<68048, 68049>>, <<68100, 68100>>, <<68103, 68107>>, <<68116, 68116>>,
      <<68120, 68120>>, <<68150, 68151>>, <<68155, 68158>>, <<68169, 68175>>,
      <<68185, 68191>>, <<68256, 68287>>, <<68327, 68330>>, <<68343, 68351>>,
      <<68406, 68408>>, <<68438, 68439>>, <<68467, 68471>>, <<68498, 68504>>,
      <<68509, 68520>>, <<68528, 68607>>, <<68681, 68735>>, <<68787, 68799>>,
      <<68851, 68857>>, <<68904, 68911>>, <<68922, 69215>>, <<69247, 69247>>,
      <<69290, 69290>>, <<69294, 69295>>, <<69298, 69372>>, <<69416, 69423>>,
      <<69466, 69487>>, <<69514, 69551>>, <<69580, 69599>>, <<69623, 69631>>,
      <<69710, 69713>>, <<69750, 69758>>, <<69827, 69836>>, <<69838, 69839>>,
      <<69865, 69871>>, <<69882, 69887>>, <<69941, 69941>>, <<69960, 69967>>,
      <<70007, 70015>>, <<70112, 70112>>, <<70133, 70143>>, <<70162, 70162>>,
      <<70210, 70271>>, <<70279, 70279>>, <<70281, 70281>>, <<70286, 70286>>,
      <<70302, 70302>>, <<70314, 70319>>, <<70379, 70383>>, <<70394, 70399>>,
      <<70404, 70404>>, <<70413, 70414>>, <<70417, 70418>>, <<70441, 70441>>,
      <<70449, 70449>>, <<70452, 70452>>, <<70458, 70458>>, <<70469, 70470>>,
      <<70473, 70474>>, <<70478, 70479>>, <<70481, 70486>>, <<70488, 70492>>,
      <<70500, 70501>>, <<70509, 70511>>, <<70517, 70655>>, <<70748, 70748>>,
      <<70754, 70783>>, <<70856, 70863>>, <<70874, 71039>>, <<71094, 71095>>,
      <<71134, 71167>>, <<71237, 71247>>, <<71258, 71263>>, <<71277, 71295>>,
      <<71354, 71359>>, <<71370, 71423>>, <<71451, 71452>>, <<71468, 71471>>,
      <<71495, 71679>>, <<71740, 71839>>, <<71923, 71934>>, <<71943, 71944>>,
      <<71946, 71947>>, <<71956, 71956>>, <<71959, 71959>>, <<71990, 71990>>,
      <<71993, 71994>>, <<72007, 72015>>, <<72026, 72095>>, <<72104, 72105>>,
      <<72152, 72153>>, <<72165, 72191>>, <<72264, 72271>>, <<72355, 72367>>,
      <<72441, 72447>>, <<72458, 72703>>, <<72713, 72713>>, <<72759, 72759>>,
      <<72774, 72783>>, <<72813, 72815>>, <<72848, 72849>>, <<72872, 72872>>,
      <<72887, 72959>>, <<72967, 72967>>, <<72970, 72970>>, <<73015, 73017>>,
      <<73019, 73019>>, <<73022, 73022>>, <<73032, 73039>>, <<73050, 73055>>,
      <<73062, 73062>>, <<73065, 73065>>, <<73103, 73103>>, <<73106, 73106>>,
      <<73113, 73119>>, <<73130, 73439>>, <<73465, 73471>>, <<73489, 73489>>,
      <<73531, 73533>>, <<73562, 73647>>, <<73649, 73663>>, <<73714, 73726>>,
      <<74650, 74751>>, <<74863, 74863>>, <<74869, 74879>>, <<75076, 77711>>,
      <<77811, 77823>>, <<78934, 82943>>, <<83527, 92159>>, <<92729, 92735>>,
      <<92767, 92767>>, <<92778, 92781>>, <<92863, 92863>>, <<92874, 92879>>,
      <<92910, 92911>>, <<92918, 92927>>, <<92998, 93007>>, <<93018, 93018>>,
      <<93026, 93026>>, <<93048, 93052>>, <<93072, 93759>>, <<93851, 93951>>,
      <<94027, 94030>>, <<94088, 94094>>, <<94112, 94175>>, <<94181, 94191>>,
      <<94194, 94207>>, <<100344, 100351>>, <<101590, 101631>>,
      <<101641, 110575>>, <<110580, 110580>>, <<110588, 110588>>,
      <<110591, 110591>>, <<110883, 110897>>, <<110899, 110927>>,
      <<110931, 110932>>, <<110934, 110947>>, <<110952, 110959>>,
      <<111356, 113663>>, <<113771, 113775>>, <<113789, 113791>>,
      <<113801, 113807>>, <<113818, 113819>>, <<113828, 118527>>,
      <<118574, 118575>>, <<118599, 118607>>, <<118724, 118783>>,
      <<119030, 119039>>, <<119079, 119080>>, <<119275, 119295>>,
      <<119366, 119487>>, <<119508, 119519>>, <<119540, 119551>>,
      <<119639, 119647>>, <<119673, 119807>>, <<119893, 119893>>,
      <<119965, 119965>>, <<119968, 119969>>, <<119971, 119972>>,
      <<119975, 119976>>, <<119981, 119981>>, <<119994, 119994>>,
      <<119996, 119996>>, <<120004, 120004>>, <<120070, 120070>>,
      <<120075, 120076>>, <<120085, 120085>>, <<120093, 120093>>,
      <<120122, 120122>>, <<120127, 120127>>, <<120133, 120133>>,
      <<120135, 120137>>, <<120145, 120145>>, <<120486, 120487>>,
      <<120780, 120781>>, <<121484, 121498>>, <<121504, 121504>>,
      <<121520, 122623>>, <<122655, 122660>>, <<122667, 122879>>,
      <<122887, 122887>>, <<122905, 122906>>, <<122914, 122914>>,
      <<122917, 122917>>, <<122923, 122927>>, <<122990, 123022>>,
      <<123024, 123135>>, <<123181, 123183>>, <<123198, 123199>>,
      <<123210, 123213>>, <<123216, 123535>>, <<123567, 123583>>,
      <<123642, 123646>>, <<123648, 124111>>, <<124154, 124895>>,
      <<124903, 124903>>, <<124908, 124908>>, <<124911, 124911>>,
      <<124927, 124927>>, <<125125, 125126>>, <<125143, 125183>>,
      <<125260, 125263>>, <<125274, 125277>>, <<125280, 126064>>,
      <<126133, 126208>>, <<126270, 126463>>, <<126468, 126468>>,
      <<126496, 126496>>, <<126499, 126499>>, <<126501, 126502>>,
      <<126504, 126504>>, <<126515, 126515>>, <<126520, 126520>>,
      <<126522, 126522>>, <<126524, 126529>>, <<126531, 126534>>,
      <<126536, 126536>>, <<126538, 126538>>, <<126540, 126540>>,
      <<126544, 126544>>, <<126547, 126547>>, <<126549, 126550>>,
      <<126552, 126552>>, <<126554, 126554>>, <<126556, 126556>>,
      <<126558, 126558>>, <<126560, 126560>>, <<126563, 126563>>,
      <<126565, 126566>>, <<126571, 126571>>, <<126579, 126579>>,
      <<126584, 126584>>, <<126589, 126589>>, <<126591, 126591>>,
      <<126602, 126602>>, <<126620, 126624>>, <<126628, 126628>>,
      <<126634, 126634>>, <<126652, 126703>>, <<126706, 126975>>,
      <<127020, 127023>>, <<127124, 127135>>, <<127151, 127152>>,
      <<127168, 127168>>, <<127184, 127184>>, <<127222, 127231>>,
      <<127406, 127461>>, <<127491, 127503>>, <<127548, 127551>>,
      <<127561, 127567>>, <<127570, 127583>>, <<127590, 127743>>,
      <<128728, 128731>>, <<128749, 128751>>, <<128765, 128767>>,
      <<128887, 128890>>, <<128986, 128991>>, <<129004, 129007>>,
      <<129009, 129023>>, <<129036, 129039>>, <<129096, 129103>>,
      <<129114, 129119>>, <<129160, 129167>>, <<129198, 129199>>,
      <<129202, 129279>>, <<129620, 129631>>, <<129646, 129647>>,
      <<129661, 129663>>, <<129673, 129679>>, <<129726, 129726>>,
      <<129734, 129741>>, <<129756, 129759>>, <<129769, 129775>>,
      <<129785, 129791>>, <<129939, 129939>>, <<129995, 130031>>,
      <<130042, 131069>>, <<173792, 173823>>, <<177978, 177983>>,
      <<178206, 178207>>, <<183970, 183983>>, <<191457, 194559>>,
      <<195102, 196605>>, <<201547, 201551>>, <<205744, 262141>>,
      <<262144, 327677>>, <<327680, 393213>>, <<393216, 458749>>,
      <<458752, 524285>>, <<524288, 589821>>, <<589824, 655357>>,
      <<655360, 720893>>, <<720896, 786429>>, <<786432, 851965>>,
      <<851968, 917501>>, <<917504, 917504>>, <<917506, 917535>>,
      <<917632, 917759>>, <<918000, 983037>> }

InLowerRange(c, r) == r[1] <= c /\ c <= r[2] /\ (c - r[1]) % r[3] = 0

InRanges(c, ranges) == \E r \in ranges : r[1] <= c /\ c <= r[2]

\* c is not assigned in Unicode 15.0 and can be in a later version
AssignedLater(c) == c >= 888 /\ InRanges(c, UnassignedRanges)

\* the lower-case mappings of the code point c taken alone, each a sequence
\* of code points: one mapping, or two where c is assigned after 15.0 and
\* an engine without it leaves it as it is
LowerChar(c) ==
    IF c < 192 THEN {<<IF 65 <= c /\ c <= 90 THEN c + 32 ELSE c>>}
    ELSE IF c = 304 THEN {<<105, 775>>}
    ELSE IF \E r \in LowerRanges : InLowerRange(c, r)
         THEN LET d == (CHOOSE r \in LowerRanges : InLowerRange(c, r))[4]
              IN  IF AssignedLater(c) THEN {<<c>>, <<c + d>>}
                  ELSE {<<c + d>>}
         ELSE {<<c>>}

\* what c can be to the final-sigma rule: "cased" (a cased letter that is
\* not case-ignorable), "ignorable" (case-ignorable) or "other".  The
\* versions differ on the code points assigned after 15.0 and on five that
\* were reclassified: the colons U+003A, U+FE55 and U+FF1A, U+0295 and
\* U+1171E.
CaseStatus(c) ==
    IF c < 128
    THEN IF (65 <= c /\ c <= 90) \/ (97 <= c /\ c <= 122) THEN {"cased"}
         ELSE IF c \in {39, 46, 94, 96} THEN {"ignorable"}
         ELSE IF c = 58 THEN {"ignorable", "other"}
         ELSE {"other"}
    ELSE IF c = 661 THEN {"cased", "ignorable", "other"}
    ELSE IF c \in {65109, 65306, 71454} THEN {"ignorable", "other"}
    ELSE IF AssignedLater(c)
         THEN IF InRanges(c, CasedRanges) THEN {"cased", "other"}
              ELSE {"ignorable", "other"}
    ELSE IF InRanges(c, CaseIgnorableRanges) THEN {"ignorable"}
    ELSE IF InRanges(c, CasedRanges) THEN {"cased"}
    ELSE {"other"}

IsHighSurrogate(u) == 55296 <= u /\ u <= 56319

IsLowSurrogate(u) == 56320 <= u /\ u <= 57343

\* code units to code points; an unpaired surrogate stands for itself
RECURSIVE CodePoints(_)
CodePoints(s) ==
    IF s = <<>> THEN <<>>
    ELSE IF Len(s) >= 2 /\ IsHighSurrogate(s[1]) /\ IsLowSurrogate(s[2])
         THEN <<65536 + (s[1] - 55296) * 1024 + (s[2] - 56320)>>
                  \o CodePoints(SubSeq(s, 3, Len(s)))
         ELSE <<s[1]>> \o CodePoints(Tail(s))

\* code points to code units
RECURSIVE CodeUnits(_)
CodeUnits(p) ==
    IF p = <<>> THEN <<>>
    ELSE IF p[1] > 65535
         THEN <<55296 + ((p[1] - 65536) \div 1024),
                56320 + ((p[1] - 65536) % 1024)>> \o CodeUnits(Tail(p))
         ELSE <<p[1]>> \o CodeUnits(Tail(p))

\* whether a cased letter, then any number of case-ignorable code points,
\* end at j: the possible answers
RECURSIVE AfterCased(_, _)
AfterCased(p, j) ==
    IF j < 1 THEN {FALSE}
    ELSE UNION {IF st = "ignorable" THEN AfterCased(p, j - 1)
                ELSE {st = "cased"} : st \in CaseStatus(p[j])}

\* whether any number of case-ignorable code points, then a cased letter,
\* start at j: the possible answers
RECURSIVE BeforeCased(_, _)
BeforeCased(p, j) ==
    IF j > Len(p) THEN {FALSE}
    ELSE UNION {IF st = "ignorable" THEN BeforeCased(p, j + 1)
                ELSE {st = "cased"} : st \in CaseStatus(p[j])}

FinalSigma(p, i) ==
    {a /\ ~b : a \in AfterCased(p, i - 1), b \in BeforeCased(p, i + 1)}

\* the lower-case mappings of the code point at position i of p
LowerAt(p, i) ==
    IF p[i] = 931
    THEN {IF f THEN <<962>> ELSE <<963>> : f \in FinalSigma(p, i)}
    ELSE LowerChar(p[i])

RECURSIVE LowerFrom(_, _)
LowerFrom(p, i) ==
    IF i > Len(p) THEN {<<>>}
    ELSE {h \o t : h \in LowerAt(p, i), t \in LowerFrom(p, i + 1)}

\* the strings that s.toLowerCase() can be
toLowerCase(s) == {CodeUnits(q) : q \in LowerFrom(CodePoints(s), 1)}

includes(hay, needle) ==
    \E k \in 0..(Len(hay) - Len(needle)) :
        \A j \in 1..Len(needle) : hay[k + j] = needle[j]

\* Date.prototype.toDateString: the calendar day of d in the local time
\* zone, tz being the zone's offset from UTC in ms (local = UTC + tz), or
\* "Invalid Date".  Time values fit 32 bits here, i.e. lie within 25 days of
\* the epoch, where a zone's offset does not change.
toDateString(d, tz) ==
    IF d.nan THEN [invalid |-> TRUE, day |-> 0]
    ELSE [invalid |-> FALSE, day |-> (d.n + tz) \div MsPerDay]

(***************************************************************************)
(* Inputs.                                                                 *)
(***************************************************************************)
\* 'aΣ', ' b', a tab and a space, 7
TitleInputs ==
    {Str(<<97, 931>>), Str(<<32, 98>>), Str(<<9, 32>>), Num(7)}

DateInputs ==
    {DateOf(0), DateOf(MsPerDay), InvalidDate, Str(<<110>>)}

\* arguments of new Event(title, date, attendees)
NewTitleInputs ==
    {Str(<<97, 931>>), Str(<<32>>), Num(7)}

NewDateInputs ==
    {DateOf(0), InvalidDate, Str(<<110>>)}

QueryDateInputs ==
    {DateOf(43200000), InvalidDate, Str(<<110>>)}

\* arguments of event.date.setTime(x)
SetTimeInputs == {Num(MsPerDay), NaN}

\* local time zones of the runtime: New York (EST), Kolkata
TimeZones == {-18000000, 19800000}

AttendeeInputs ==
    {Str(<<66>>), Str(<<10, 32>>), Num(7)}

AttendeeLists ==
    {<<Str(<<65>>)>>, <<Str(<<66>>), Str(<<32>>), Str(<<66>>)>>}

\* '', 'A', 'Σ', 7
SearchInputs ==
    {Str(<<>>), Str(<<65>>), Str(<<931>>), Num(7)}

Ids == 1..MaxEvents

EventInputs == {EventRef(i) : i \in Ids} \cup {Undefined}

(***************************************************************************)
(* Set and Map primitives.                                                 *)
(***************************************************************************)
InSeq(x, s) == \E i \in 1..Len(s) : s[i] = x

SetAddAlways(s, x) == Append(s, x)

\* Set.prototype.add / Map.prototype.set on the key sequence
SetAdd(s, x) == IF InSeq(x, s) THEN s ELSE Append(s, x)

\* new Set(iterable)
RECURSIVE NewSet(_)
NewSet(list) ==
    IF list = <<>> THEN <<>>
    ELSE SetAdd(NewSet(SubSeq(list, 1, Len(list) - 1)), list[Len(list)])

MapDeleteHead(s, x) == IF InSeq(x, s) THEN Tail(s) ELSE s

\* Map.prototype.delete on the key sequence
MapDelete(s, x) == SelectSeq(s, LAMBDA y : y # x)

Result(op, args, threw, val) ==
    [op |-> op, args |-> args, threw |-> threw, val |-> val]

\* a thrown TypeError carries its message only
Threw(op, message) == Result(op, <<>>, TRUE, message)

TitleError == "Event title must be a non-empty string"
DateError == "Invalid date provided"
AttendeeError == "Attendee must be a non-empty string"
EventError == "Only Event instances can be added"
SearchError == "Search term must be a string"

(***************************************************************************)
(* class Event                                                             *)
(***************************************************************************)
Constructed == 1..Len(title)

ValidTitle(v) == typeof(v) = "string" /\ trim(v.s) # <<>>
ValidDate(v) == instanceofDate(v) /\ ~isNaN(v)
ValidAttendee(v) == typeof(v) = "string" /\ trim(v.s) # <<>>

\* names every Date object by the least index of an Event holding it
Canon(f) ==
    [x \in 1..Len(f) |->
        CHOOSE y \in 1..Len(f) :
            f[y] = f[x] /\ \A z \in 1..Len(f) : f[z] = f[x] => y <= z]

\* the Date object passed as an argument: one no Event holds (src = 0), or
\* the one Event src holds, obtained from src.date
IsDateArg(d, src) ==
    src = 0 \/ (src \in 1..Len(title) /\ d = date[src])

ObjectOf(src) == IF src = 0 THEN 0 ELSE dobj[src]

\* new Event(t, d, a)
Construct(t, d, src, a) ==
    /\ Len(title) < MaxEvents
    /\ IsDateArg(d, src)
    /\ IF ~ValidTitle(t) \/ ~ValidDate(d)
       THEN /\ ret' = IF ~ValidTitle(t)
                        THEN Threw("construct", TitleError)
                        ELSE Threw("construct", DateError)
            /\ UNCHANGED <<title, date, dobj, attendees, ops>>
       ELSE /\ ops < MaxOps
            /\ title' = Append(title, t)
            /\ date' = Append(date, d)
            /\ dobj' = Canon(Append(dobj, ObjectOf(src)))
            /\ attendees' = Append(attendees, NewSet(a))
            /\ ops' = ops + 1
            /\ ret' = Result("construct", <<t, d>>, FALSE,
                             EventRef(Len(title) + 1))
    /\ UNCHANGED <<events, debVars>>

\* event.title = v
SetTitle(e, v) ==
    /\ e \in Constructed
    /\ IF ~ValidTitle(v)
       THEN /\ ret' = Threw("set title", TitleError)
            /\ UNCHANGED <<title, ops>>
       ELSE /\ ops < MaxOps
            /\ title' = [title EXCEPT ![e] = v]
            /\ ops' = ops + 1
            /\ ret' = Result("set title", <<EventRef(e), v>>, FALSE, Undefined)
    /\ UNCHANGED <<date, dobj, attendees, events, debVars>>

SetDateThenValidate(e, v, src) ==
    /\ e \in Constructed
    /\ IsDateArg(v, src)
    /\ IF ~ValidDate(v)
       THEN /\ ret' = Threw("set date", DateError)
            /\ date' = [date EXCEPT ![e] = v]
            /\ dobj' = Canon([dobj EXCEPT ![e] = ObjectOf(src)])
            /\ UNCHANGED ops
       ELSE /\ ops < MaxOps
            /\ date' = [date EXCEPT ![e] = v]
            /\ dobj' = Canon([dobj EXCEPT ![e] = ObjectOf(src)])
            /\ ops' = ops + 1
            /\ ret' = Result("set date", <<EventRef(e), v>>, FALSE, Undefined)
    /\ UNCHANGED <<title, attendees, events, debVars>>

\* event.date = v
SetDate(e, v, src) ==
    /\ e \in Constructed
    /\ IsDateArg(v, src)
    /\ IF ~ValidDate(v)
       THEN /\ ret' = Threw("set date", DateError)
            /\ UNCHANGED <<date, dobj, ops>>
       ELSE /\ ops < MaxOps
            /\ date' = [date EXCEPT ![e] = v]
            /\ dobj' = Canon([dobj EXCEPT ![e] = ObjectOf(src)])
            /\ ops' = ops + 1
            /\ ret' = Result("set date", <<EventRef(e), v>>, FALSE, Undefined)
    /\ UNCHANGED <<title, attendees, events, debVars>>

\* event.date.setTime(x): get date() returns the stored Date object itself,
\* and Date.prototype.setTime changes it in place, for every Event holding it
DateSetTime(e, x) ==
    /\ e \in Constructed
    /\ ops < MaxOps
    /\ date' = [i \in 1..Len(date) |->
                  IF dobj[i] = dobj[e]
                  THEN IF x.nan THEN InvalidDate ELSE DateOf(x.n)
                  ELSE date[i]]
    /\ ops' = ops + 1
    /\ ret' = Result("date.setTime", <<EventRef(e), x>>, FALSE, x)
    /\ UNCHANGED <<title, dobj, attendees, events, debVars>>

\* event.addAttendee(v)
AddAttendee(e, v) ==
    /\ e \in Constructed
    /\ IF ~ValidAttendee(v)
       THEN /\ ret' = Threw("addAttendee", AttendeeError)
            /\ UNCHANGED <<attendees, ops>>
       ELSE /\ ops < MaxOps
            /\ attendees' = [attendees EXCEPT ![e] = SetAdd(@, v)]
            /\ ops' = ops + 1
            /\ ret' = Result("addAttendee", <<EventRef(e), v>>, FALSE, Undefined)
    /\ UNCHANGED <<title, date, dobj, events, debVars>>

(***************************************************************************)
(* class EventScheduler                                                    *)
(***************************************************************************)
\* (a, b) => a.date - b.date as sort reads it: NaN, the difference with an
\* Invalid Date, counts as +0
CompareDates(a, b) ==
    IF date[a].nan \/ date[b].nan THEN 0 ELSE date[a].n - date[b].n

\* the stable sort that Array.prototype.sort performs with that comparator
\* when no compared date is an Invalid Date
RECURSIVE InsertByDate(_, _)
InsertByDate(sorted, x) ==
    IF sorted = <<>> THEN <<x>>
    ELSE IF CompareDates(sorted[Len(sorted)], x) <= 0
         THEN Append(sorted, x)
         ELSE Append(InsertByDate(SubSeq(sorted, 1, Len(sorted) - 1), x),
                     sorted[Len(sorted)])

RECURSIVE SortByDate(_)
SortByDate(s) ==
    IF s = <<>> THEN <<>>
    ELSE InsertByDate(SortByDate(SubSeq(s, 1, Len(s) - 1)), s[Len(s)])

getTotalEvents == Len(events)

getEvent(id) == IF InSeq(id, events) THEN EventRef(id) ELSE Undefined

\* the orders in which the elements of s can be arranged
Orders(s) ==
    {p \in [1..Len(s) -> {s[i] : i \in 1..Len(s)}] :
        \A i, j \in 1..Len(p) : p[i] = p[j] => i = j}

\* Array.prototype.sort on the values of the Map: with an Invalid Date among
\* the dates a.date - b.date is NaN, the comparator is not a consistent one,
\* and the order of the result is left to the implementation
SortOutcomes(s) ==
    IF \E i \in 1..Len(s) : date[s[i]].nan
    THEN Orders(s)
    ELSE {SortByDate(s)}

\* the arrays that getAllEvents() can return
getAllEvents == SortOutcomes(events)

\* getEventsOnDate(d), all being the array that its call of getAllEvents()
\* returned
getEventsOnDate(all, d, tz) ==
    SelectSeq(all, LAMBDA e : toDateString(date[e], tz) = toDateString(d, tz))

\* the events of all, in order, that the filter of findEventsByTitle keeps
\* for the lower-cased term: the arrays it can return
RECURSIVE FilterByTitle(_, _)
FilterByTitle(all, term) ==
    IF all = <<>> THEN {<<>>}
    ELSE {(IF includes(t, term) THEN <<Head(all)>> ELSE <<>>) \o rest :
             t \in toLowerCase(title[Head(all)].s),
             rest \in FilterByTitle(Tail(all), term)}

\* findEventsByTitle(v), all being the array that its call of getAllEvents()
\* returned: the arrays it can return
findEventsByTitle(all, v) ==
    UNION {FilterByTitle(all, term) : term \in toLowerCase(v.s)}

RECURSIVE AddAll(_, _)
AddAll(set, list) ==
    IF list = <<>> THEN set
    ELSE AddAll(SetAdd(set, Head(list)), Tail(list))

RECURSIVE CollectAttendees(_, _)
CollectAttendees(set, evs) ==
    IF evs = <<>> THEN set
    ELSE CollectAttendees(AddAll(set, attendees[Head(evs)]), Tail(evs))

getAllAttendees == CollectAttendees(<<>>, events)

AddEventPush(v) ==
    /\ v.kind = "Event" => v.n \in Constructed
    /\ IF ~instanceofEvent(v)
       THEN /\ ret' = Threw("addEvent", EventError)
            /\ UNCHANGED <<events, ops>>
       ELSE /\ ops < MaxOps
            /\ events' = Append(events, v.n)
            /\ ops' = ops + 1
            /\ ret' = Result("addEvent", <<v>>, FALSE, Undefined)
    /\ UNCHANGED <<title, date, dobj, attendees, debVars>>

\* scheduler.addEvent(v)
AddEvent(v) ==
    /\ v.kind = "Event" => v.n \in Constructed
    /\ IF ~instanceofEvent(v)
       THEN /\ ret' = Threw("addEvent", EventError)
            /\ UNCHANGED <<events, ops>>
       ELSE /\ events' = SetAdd(events, v.n)
            /\ UNCHANGED ops
            /\ ret' = Result("addEvent", <<v>>, FALSE, Undefined)
    /\ UNCHANGED <<title, date, dobj, attendees, debVars>>

\* scheduler.removeEvent(id)
RemoveEvent(id) ==
    /\ events' = MapDelete(events, id)
    /\ UNCHANGED ops
    /\ ret' = Result("removeEvent", <<EventId(id)>>, FALSE, InSeq(id, events))
    /\ UNCHANGED <<title, date, dobj, attendees, debVars>>

\* scheduler.getEvent(id)
GetEvent(id) ==
    /\ ret' = Result("getEvent", <<EventId(id)>>, FALSE, getEvent(id))
    /\ UNCHANGED <<title, date, dobj, attendees, events, ops, debVars>>

\* scheduler.getAllEvents()
GetAllEvents ==
    /\ \E all \in getAllEvents :
          ret' = Result("getAllEvents", <<>>, FALSE, all)
    /\ UNCHANGED <<title, date, dobj, attendees, events, ops, debVars>>

\* scheduler.getEventsOnDate(d), called where the local time zone is tz (an
\* offset from UTC in milliseconds)
GetEventsOnDate(d, tz) ==
    /\ IF ~instanceofDate(d)
       THEN ret' = Threw("getEventsOnDate", DateError)
       ELSE \E all \in getAllEvents :
               ret' = Result("getEventsOnDate", <<d>>, FALSE,
                             getEventsOnDate(all, d, tz))
    /\ UNCHANGED <<title, date, dobj, attendees, events, ops, debVars>>

\* scheduler.findEventsByTitle(v)
FindEventsByTitle(v) ==
    /\ IF typeof(v) # "string"
       THEN ret' = Threw("findEventsByTitle", SearchError)
       ELSE \E all \in getAllEvents : \E found \in findEventsByTitle(all, v) :
               ret' = Result("findEventsByTitle", <<v>>, FALSE, found)
    /\ UNCHANGED <<title, date, dobj, attendees, events, ops, debVars>>

\* scheduler.getTotalEvents()
GetTotalEvents ==
    /\ ret' = Result("getTotalEvents", <<>>, FALSE, getTotalEvents)
    /\ UNCHANGED <<title, date, dobj, attendees, events, ops, debVars>>

\* scheduler.getAllAttendees()
GetAllAttendees ==
    /\ ret' = Result("getAllAttendees", <<>>, FALSE, getAllAttendees)
    /\ UNCHANGED <<title, date, dobj, attendees, events, ops, debVars>>

(***************************************************************************)
(* utils.debounce(func, delay)                                             *)
(***************************************************************************)
Delay == 300
MaxCalls == 3
TickSteps == {100, 200}
CallArgs == {"e1", "e2"}

Max(a, b) == IF a > b THEN a ELSE b
Min(a, b) == IF a < b THEN a ELSE b

clearTimeout(set, id) == {t \in set : t.id # id}

DebouncedNoClear(args) ==
    /\ Len(calls) < MaxCalls
    /\ timers' = timers
                   \cup {[id |-> nextTimer, left |-> Delay, args |-> args]}
    /\ timeoutId' = nextTimer
    /\ nextTimer' = nextTimer + 1
    /\ calls' = Append(calls, args)
    /\ sinceCall' = 0
    /\ UNCHANGED <<runs, schedVars>>

\* the wrapper returned by debounce, called with args
Debounced(args) ==
    /\ Len(calls) < MaxCalls
    /\ timers' = clearTimeout(timers, timeoutId)
                   \cup {[id |-> nextTimer, left |-> Delay, args |-> args]}
    /\ timeoutId' = nextTimer
    /\ nextTimer' = nextTimer + 1
    /\ calls' = Append(calls, args)
    /\ sinceCall' = 0
    /\ UNCHANGED <<runs, schedVars>>

\* time passes
Tick(dt) ==
    /\ \E t \in timers : t.left > 0
    /\ timers' = {[t EXCEPT !.left = Max(0, t.left - dt)] : t \in timers}
    /\ sinceCall' = Min(Delay, sinceCall + dt)
    /\ UNCHANGED <<timeoutId, nextTimer, calls, runs, schedVars>>

\* the timer callback () => func.apply(this, args)
Fire(t) ==
    /\ t \in timers
    /\ t.left = 0
    /\ timers' = timers \ {t}
    /\ runs' = Append(runs, [args |-> t.args, call |-> Len(calls),
                             since |-> sinceCall])
    /\ UNCHANGED <<timeoutId, nextTimer, sinceCall, calls, schedVars>>

(***************************************************************************)
(* Specifications                                                          *)
(***************************************************************************)
Init ==
    /\ title = <<>>
    /\ date = <<>>
    /\ dobj = <<>>
    /\ attendees = <<>>
    /\ events = <<>>
    /\ ops = 0
    /\ ret = Result("new EventScheduler", <<>>, FALSE, Undefined)
    /\ timeoutId = 0
    /\ timers = {}
    /\ nextTimer = 1
    /\ sinceCall = 0
    /\ calls = <<>>
    /\ runs = <<>>

Next ==
    \/ \E t \in NewTitleInputs, d \in NewDateInputs, a \in AttendeeLists :
          Construct(t, d, 0, a)
    \/ \E t \in NewTitleInputs, k \in Constructed, a \in AttendeeLists :
          Construct(t, date[k], k, a)
    \/ \E e \in Ids, v \in TitleInputs : SetTitle(e, v)
    \/ \E e \in Ids, v \in DateInputs : SetDate(e, v, 0)
    \/ \E e \in Ids, k \in Constructed : SetDate(e, date[k], k)
    \/ \E e \in Ids, x \in SetTimeInputs : DateSetTime(e, x)
    \/ \E e \in Ids, v \in AttendeeInputs : AddAttendee(e, v)
    \/ \E v \in EventInputs : AddEvent(v)
    \/ \E id \in Ids : RemoveEvent(id)
    \/ \E id \in Ids : GetEvent(id)
    \/ GetAllEvents
    \/ \E d \in QueryDateInputs, tz \in TimeZones : GetEventsOnDate(d, tz)
    \/ \E v \in SearchInputs : FindEventsByTitle(v)
    \/ GetTotalEvents
    \/ GetAllAttendees

Spec == Init /\ [][Next]_vars

TickAny == \E dt \in TickSteps : Tick(dt)
FireAny == \E t \in timers : Fire(t)

NextDebounce ==
    \/ \E a \in CallArgs : Debounced(a)
    \/ TickAny
    \/ FireAny

SpecDebounce ==
    Init /\ [][NextDebounce]_vars /\ WF_vars(TickAny) /\ WF_vars(FireAny)

(***************************************************************************)
(* Properties                                                              *)
(***************************************************************************)
Blank(v) == typeof(v) = "string" /\ trim(v.s) = <<>>

NoDuplicates(s) == \A i, j \in 1..Len(s) : s[i] = s[j] => i = j

Elements(s) == {s[i] : i \in 1..Len(s)}

Occurrences(x, s) == Cardinality({i \in 1..Len(s) : s[i] = x})

FirstIndex(x, s) == CHOOSE i \in 1..Len(s) :
                        s[i] = x /\ \A j \in 1..(i - 1) : s[j] # x

RECURSIVE Flatten(_)
Flatten(evs) ==
    IF evs = <<>> THEN <<>>
    ELSE attendees[Head(evs)] \o Flatten(Tail(evs))

\* out lists every element of flat exactly once, in order of first occurrence
FirstSeenOrder(out, flat) ==
    /\ NoDuplicates(out)
    /\ Elements(out) = Elements(flat)
    /\ \A i, j \in 1..Len(out) :
          i < j => FirstIndex(out[i], flat) < FirstIndex(out[j], flat)

\* C1: no Event ever holds an empty or whitespace-only attendee, whatever
\* initial attendees list it was constructed with.
C1_NoBlankAttendee ==
    \A e \in Constructed : \A i \in 1..Len(attendees[e]) :
        ~Blank(attendees[e][i])

\* C2: new Event and getEventsOnDate never return a result for an invalid
\* date (an Invalid Date object or a non-date value); they throw instead.
C2_InvalidDateRejected ==
    /\ (ret.op = "construct" /\ ~ret.threw) => ValidDate(ret.args[2])
    /\ (ret.op = "getEventsOnDate" /\ ~ret.threw) => ValidDate(ret.args[1])

\* C3: getAllAttendees lists every attendee of the owned Events
\* once, in first-seen order with the events visited in ascending-date order.
C3_AttendeesInDateOrder ==
    ret.op = "getAllAttendees" =>
        \E all \in getAllEvents : FirstSeenOrder(ret.val, Flatten(all))

\* a.date <= b.date as JavaScript evaluates it: false with an Invalid Date
DateLeq(a, b) == ~a.nan /\ ~b.nan /\ a.n <= b.n

\* C4: getAllEvents returns exactly the owned Events, each once, in
\* ascending order of date (a.date <= b.date for a before b), however the
\* dates of the Events were changed.
C4_AllEventsSorted ==
    ret.op = "getAllEvents" =>
        /\ Len(ret.val) = Len(events)
        /\ Elements(ret.val) = Elements(events)
        /\ \A i, j \in 1..Len(ret.val) :
              i < j => DateLeq(date[ret.val[i]], date[ret.val[j]])

\* C5: removeEvent(id) of an absent id returns false and changes nothing;
\* of a present id it returns true, lowers getTotalEvents by exactly one and
\* removes that id's entry only.
C5_RemoveEvent ==
    [][ret'.op = "removeEvent" =>
         LET id == ret'.args[1].n IN
         IF InSeq(id, events)
         THEN /\ ret'.val = TRUE
              /\ getTotalEvents' = getTotalEvents - 1
              /\ ~InSeq(id, events')
              /\ \A x \in Ids \ {id} : InSeq(x, events') <=> InSeq(x, events)
         ELSE /\ ret'.val = FALSE
              /\ getTotalEvents' = getTotalEvents
              /\ events' = events]_vars

C5_Witness ==
    /\ ret.op = "removeEvent"
    /\ ret.val = TRUE
    /\ Len(events) = 1

\* C6: getEvent(id) is the Event with that id exactly when it was added and
\* not removed since, and undefined otherwise; the Map holds at most one entry
\* per id, so adding a stored Event again leaves getTotalEvents unchanged.
C6_GetEvent ==
    /\ \A id \in Ids : getEvent(id) = Undefined
    /\ [][IF ret'.op = "addEvent" /\ ~ret'.threw
          THEN /\ NoDuplicates(events')
               /\ \A id \in Ids :
                    IF ret'.args = <<EventRef(id)>>
                    THEN /\ getEvent(id)' = EventRef(id)
                         /\ InSeq(id, events) =>
                                getTotalEvents' = getTotalEvents
                    ELSE getEvent(id)' = getEvent(id)
          ELSE IF ret'.op = "removeEvent"
          THEN /\ NoDuplicates(events')
               /\ \A id \in Ids :
                    IF ret'.args = <<EventId(id)>>
                    THEN getEvent(id)' = Undefined
                    ELSE getEvent(id)' = getEvent(id)
          ELSE /\ events' = events
               /\ ret'.op = "getEvent" =>
                     /\ ~ret'.threw
                     /\ \A id \in Ids :
                           ret'.args = <<EventId(id)>>
                              => ret'.val = getEvent(id)]_vars

C6_Witness ==
    /\ ret.op = "getEvent"
    /\ ret.val = EventRef(1)
    /\ events = <<2, 1>>

\* C7: a call that throws leaves every Event's title, date and attendees
\* and the scheduler's stored events as they were.
C7_NoPartialMutation ==
    [][ret'.threw => UNCHANGED <<title, date, dobj, attendees, events>>]_vars

C7_Witness ==
    /\ ret.threw
    /\ ret.op = "set date"
    /\ Len(events) = 2

\* c and d are one letter, in the same or in different case
SameLetter(c, d) == c = d \/ LowerChar(c) \cap LowerChar(d) # {}

ContainsIgnoringCase(hay, needle) ==
    \E k \in 0..(Len(hay) - Len(needle)) :
        \A j \in 1..Len(needle) : SameLetter(hay[k + j], needle[j])

\* C8: findEventsByTitle(term) is the subsequence of getAllEvents() of the
\* events whose title contains term ignoring letter case; the empty term
\* selects every event.
C8_FindByTitle ==
    (ret.op = "findEventsByTitle" /\ ~ret.threw) =>
        LET term == ret.args[1].s IN
        \E all \in getAllEvents :
            /\ ret.val = SelectSeq(all,
                           LAMBDA e : ContainsIgnoringCase(title[e].s, term))
            /\ term = <<>> => ret.val = all

\* C9: addAttendee(name) with a valid name leaves name in the attendees
\* exactly once, keeps the attendees already present in their order, and
\* changes nothing when name is already present (a repeated call is a no-op).
C9_AddAttendeeIdempotent ==
    [][(ret'.op = "addAttendee" /\ ~ret'.threw) =>
         LET e == ret'.args[1].n
             name == ret'.args[2]
         IN /\ Occurrences(name, attendees'[e]) = 1
            /\ Len(attendees'[e]) >= Len(attendees[e])
            /\ SubSeq(attendees'[e], 1, Len(attendees[e])) = attendees[e]
            /\ InSeq(name, attendees[e]) => attendees'[e] = attendees[e]
            /\ \A x \in Constructed \ {e} : attendees'[x] = attendees[x]]_vars

\* addAttendee('B') has succeeded on an Event constructed with ['B', ' ', 'B']
C9_Witness ==
    /\ ret.op = "addAttendee"
    /\ ~ret.threw
    /\ ret.args[2] = Str(<<66>>)
    /\ attendees[ret.args[1].n] = <<Str(<<66>>), Str(<<32>>)>>

DebounceSafe ==
    /\ Cardinality(timers) <= 1
    /\ \A i \in 1..Len(runs) :
          /\ runs[i].args = calls[runs[i].call]
          /\ runs[i].since >= Delay
          /\ \A j \in 1..Len(runs) : runs[i].call = runs[j].call => i = j

DebounceSettled ==
    /\ timers = {}
    /\ runs # <<>>
    /\ runs[Len(runs)].call = Len(calls)
    /\ runs[Len(runs)].args = calls[Len(calls)]

\* C10: at most one timer is pending; func only runs once the delay has
\* passed since the latest call, with that call's arguments, and at most
\* once per burst; and once a call was made func eventually runs for it or
\* for a later call.
C10_Debounce ==
    /\ []DebounceSafe
    /\ (timers # {}) ~> DebounceSettled

C10_Witness ==
    /\ timers = {}
    /\ Len(calls) = 3
    /\ Len(runs) = 1
    /\ runs[1].call = 3

====
